---- MODULE Spec2Model ----
(***************************************************************************)
(* A model of TplController (src/src/tpl-controller.mjs): one controller   *)
(* instance talking to one device.  JavaScript strings on which the code   *)
(* computes (keys, values, bodies) are sequences of one-character strings; *)
(* strings the code only passes along (error messages, the password, the   *)
(* address, the action state) are TLA+ strings.                            *)
(***************************************************************************)
EXTENDS Integers, Sequences, FiniteSets, TLC

(***************************************************************************)
(* JavaScript values: a number, a string or undefined.                     *)
(***************************************************************************)
JNum(n) == [t |-> "num", n |-> n, s |-> <<>>]
JStr(s) == [t |-> "str", n |-> 0, s |-> s]
JUndef == [t |-> "undef", n |-> 0, s |-> <<>>]

Digits == <<"0", "1", "2", "3", "4", "5", "6", "7", "8", "9">>

RECURSIVE NatToStr(_)
NatToStr(n) ==
    IF n < 10 THEN <<Digits[n + 1]>>
    ELSE NatToStr(n \div 10) \o <<Digits[(n % 10) + 1]>>

\* `v + ''`: the string a JavaScript value is coerced to.
ToStr(v) ==
    CASE v.t = "num" -> IF v.n < 0 THEN <<"-">> \o NatToStr(-v.n) ELSE NatToStr(v.n)
      [] v.t = "str" -> v.s
      [] OTHER -> <<"u", "n", "d", "e", "f", "i", "n", "e", "d">>

UpperChars == <<"A", "B", "C", "D", "E", "F", "G", "H", "I", "J", "K", "L", "M",
                "N", "O", "P", "Q", "R", "S", "T", "U", "V", "W", "X", "Y", "Z">>
LowerChars == <<"a", "b", "c", "d", "e", "f", "g", "h", "i", "j", "k", "l", "m",
                "n", "o", "p", "q", "r", "s", "t", "u", "v", "w", "x", "y", "z">>

LowerChar(c) ==
    IF \E i \in 1..26 : UpperChars[i] = c
    THEN LowerChars[CHOOSE i \in 1..26 : UpperChars[i] = c]
    ELSE c

\* The requested value compared as it was supplied.
toLowerCase_asSupplied(s) == s

\* String.prototype.toLowerCase
toLowerCase(s) == [i \in 1..Len(s) |-> LowerChar(s[i])]

\* A comparison of the whole string in place of its beginning.
startsWith_wholeString(s, p) == s = p

\* String.prototype.startsWith
startsWith(s, p) == Len(s) >= Len(p) /\ SubSeq(s, 1, Len(p)) = p

\* The position of the first occurrence of sep in s, 0 when there is none.
FirstAt(s, sep) ==
    LET hits == {i \in 1..(Len(s) - Len(sep) + 1) : SubSeq(s, i, i + Len(sep) - 1) = sep}
    IN IF hits = {} THEN 0 ELSE CHOOSE i \in hits : \A j \in hits : i <= j

\* String.prototype.split with a non-empty separator: every piece, empty ones too.
RECURSIVE split(_, _)
split(s, sep) ==
    LET i == FirstAt(s, sep)
    IN IF i = 0 THEN <<s>>
       ELSE <<SubSeq(s, 1, i - 1)>> \o split(SubSeq(s, i + Len(sep), Len(s)), sep)

\* Array.prototype.filter(value => value) on an array of strings.
RECURSIVE filterTruthy(_)
filterTruthy(a) ==
    IF a = <<>> THEN <<>>
    ELSE (IF Head(a) = <<>> THEN <<>> ELSE <<Head(a)>>) \o filterTruthy(Tail(a))

\* Array.prototype.slice(n)
slice(a, n) == IF Len(a) <= n THEN <<>> ELSE SubSeq(a, n + 1, Len(a))

(***************************************************************************)
(* Objects are sequences of entries [k, v] in insertion order (the order   *)
(* of for-in and Object.values for non-numeric keys).                      *)
(***************************************************************************)
hasKey(obj, key) == \E i \in 1..Len(obj) : obj[i].k = key

\* obj[key]: the value of the (last) entry of that key, undefined without one.
getKey(obj, key) ==
    IF hasKey(obj, key)
    THEN LET i == CHOOSE i \in 1..Len(obj) :
                      /\ obj[i].k = key
                      /\ \A j \in (i + 1)..Len(obj) : obj[j].k # key
         IN obj[i].v
    ELSE JUndef

\* Default data separator.
separator == <<"\r", "\n">>

\* #getCurrentStates: drop two lines, split every line on each space, and
\* take the first two pieces of a line as its key and its value.
getCurrentStates(values) ==
    LET lines == slice(values, 2)
    IN [i \in 1..Len(lines) |->
           LET parts == split(lines[i], <<" ">>)
           IN [k |-> parts[1],
               v |-> IF Len(parts) >= 2 THEN JStr(parts[2]) ELSE JUndef]]

\* #getValues: the alias values as strings.
getValues(aliases) == [i \in 1..Len(aliases) |-> ToStr(aliases[i].v)]

\* Array.prototype.indexOf of a value that is a string or undefined, zero based.
indexOf(values, value) ==
    IF value.t = "str" /\ \E i \in 1..Len(values) : values[i] = value.s
    THEN (CHOOSE i \in 1..Len(values) :
              /\ values[i] = value.s
              /\ \A j \in 1..(i - 1) : values[j] # value.s) - 1
    ELSE -1

\* command.keys[key]?.aliases as [defined, obj].
aliasesOf(command, key) ==
    IF command.hasKeys /\ hasKey(command.keys, key) /\ getKey(command.keys, key).hasAliases
    THEN [defined |-> TRUE, obj |-> getKey(command.keys, key).aliases]
    ELSE [defined |-> FALSE, obj |-> <<>>]

\* A toggle that always takes the first alias's value.
getUpcomingValue_firstAlias(command, key, state, value) ==
    IF state = ToStr(JNum(-1))
    THEN LET aliases == aliasesOf(command, key)
             values == getValues(aliases.obj)
         IN IF aliases.defined /\ Len(values) = 2
            THEN values[1]
            ELSE (IF value = JStr(<<"0">>) THEN <<"1">> ELSE <<"0">>)
    ELSE state

\* #getUpcomingValue: state is a string, value a string or undefined.
getUpcomingValue(command, key, state, value) ==
    IF state = ToStr(JNum(-1))
    THEN LET aliases == aliasesOf(command, key)
             values == getValues(aliases.obj)
         IN IF aliases.defined /\ Len(values) = 2
            THEN (IF indexOf(values, value) = 0 THEN values[2] ELSE values[1])
            ELSE (IF value = JStr(<<"0">>) THEN <<"1">> ELSE <<"0">>)
    ELSE state

\* The loop of #mergeStates over the entries of states from index i on.
RECURSIVE mergeLoop(_, _, _, _)
mergeLoop(command, states, current, i) ==
    IF i > Len(states) THEN <<>>
    ELSE LET key == states[i].k
             value == getKey(current, key)
             state == ToStr(states[i].v)
             line == IF value # JStr(state)
                     THEN separator \o key \o <<" ">>
                              \o getUpcomingValue(command, key, state, value)
                     ELSE <<>>
         IN line \o mergeLoop(command, states, current, i + 1)

\* The id line put in front of the lines even when there is none.
mergeStates_alwaysPrefixed(command, states, values) ==
    <<"i", "d", " ">> \o command.id
        \o mergeLoop(command, states, getCurrentStates(values), 1)

\* #mergeStates: the update body, the empty string when nothing differs.
mergeStates(command, states, values) ==
    LET data == mergeLoop(command, states, getCurrentStates(values), 1)
    IN IF data = <<>> THEN <<>> ELSE <<"i", "d", " ">> \o command.id \o data

\* The loop of #validateStates over the entries of values from index i on.
RECURSIVE validateLoop(_, _, _)
validateLoop(keys, values, i) ==
    IF i > Len(values) THEN <<>>
    ELSE LET key == values[i].k
             entry ==
                 IF hasKey(keys, key)
                 THEN LET spec == getKey(keys, key)
                          value == toLowerCase(ToStr(values[i].v))
                      IN IF spec.hasAliases /\ hasKey(spec.aliases, value)
                         THEN <<[k |-> key, v |-> getKey(spec.aliases, value)]>>
                         ELSE IF spec.toggle /\ value = <<"t", "o", "g", "g", "l", "e">>
                         THEN <<[k |-> key, v |-> JNum(-1)]>>
                         ELSE <<>>
                 ELSE <<[k |-> key, v |-> values[i].v]>>
         IN entry \o validateLoop(keys, values, i + 1)

\* #validateStates: [defined, obj]; undefined without keys or without values.
validateStates(command, values) ==
    IF command.hasKeys /\ values.defined
    THEN [defined |-> TRUE, obj |-> validateLoop(command.keys, values.obj, 1)]
    ELSE [defined |-> FALSE, obj |-> <<>>]

(***************************************************************************)
(* Commands and desired states: the inputs of turnStates.                  *)
(***************************************************************************)
K_enable == <<"e", "n", "a", "b", "l", "e">>
K_mode == <<"m", "o", "d", "e">>
K_level == <<"l", "e", "v", "e", "l">>
\* Keys of the device that no command of the catalog lists; the value of the
\* second holds a space.
K_x == <<"x">>
K_name == <<"n", "a", "m", "e">>

S_on == <<"o", "n">>
S_off == <<"o", "f", "f">>
S_toggle == <<"t", "o", "g", "g", "l", "e">>

KeySpec(aliases, toggle) ==
    [hasAliases |-> TRUE, aliases |-> aliases, toggle |-> toggle]
KeySpecNoAliases(toggle) ==
    [hasAliases |-> FALSE, aliases |-> <<>>, toggle |-> toggle]

\* commands.led
led ==
    [defined |-> TRUE,
     id |-> <<"1", "1", "2", "|", "1", ",", "0", ",", "0">>,
     hasKeys |-> TRUE,
     keys |-> <<[k |-> K_enable,
                 v |-> KeySpec(<<[k |-> S_on, v |-> JNum(1)],
                                 [k |-> S_off, v |-> JNum(0)]>>, TRUE)]>>]

\* A caller's own command: a toggle key without aliases, and a key of three
\* aliases, one of them named with an upper-case letter.
custom ==
    [defined |-> TRUE,
     id |-> <<"7">>,
     hasKeys |-> TRUE,
     keys |-> <<[k |-> K_mode, v |-> KeySpecNoAliases(TRUE)],
                [k |-> K_level,
                 v |-> KeySpec(<<[k |-> <<"l", "o">>, v |-> JNum(1)],
                                 [k |-> <<"m", "i">>, v |-> JNum(2)],
                                 [k |-> <<"H", "i">>, v |-> JNum(3)]>>, TRUE)]>>]

\* A command object without keys, one whose keys are an empty mapping, and no
\* command at all.
noKeys == [defined |-> TRUE, id |-> <<"9">>, hasKeys |-> FALSE, keys |-> <<>>]
emptyKeys == [defined |-> TRUE, id |-> <<"8">>, hasKeys |-> TRUE, keys |-> <<>>]
noCommand == [defined |-> FALSE, id |-> <<>>, hasKeys |-> FALSE, keys |-> <<>>]

noValues == [defined |-> FALSE, obj |-> <<>>]
Values1(k, v) == [defined |-> TRUE, obj |-> <<[k |-> k, v |-> v]>>]
Values2(k1, v1, k2, v2) ==
    [defined |-> TRUE, obj |-> <<[k |-> k1, v |-> v1], [k |-> k2, v |-> v2]>>]

\* The calls of turnStates the model makes: <<command, values>>.
Calls ==
    {<<noCommand, noValues>>, <<noKeys, Values1(K_enable, JStr(S_on))>>,
     <<emptyKeys, Values1(K_enable, JStr(S_on))>>,
     <<led, noValues>>, <<led, [defined |-> TRUE, obj |-> <<>>]>>}
    \cup {<<led, Values1(K_enable, v)>> :
            v \in {JStr(S_on), JStr(<<"O", "F", "F">>), JStr(S_toggle), JStr(<<"1">>)}}
    \cup {<<led, Values1(K_x, v)>> : v \in {JNum(-1), JStr(<<"5">>)}}
    \cup {<<led, Values1(K_name, JStr(<<"a", " ", "b">>))>>}
    \cup {<<led, Values2(K_enable, JStr(S_toggle), K_x, JStr(<<"-", "1">>))>>,
          <<led, Values2(K_x, JStr(<<"0">>), K_enable, JStr(<<"O", "n">>))>>}
    \cup {<<custom, Values1(K_mode, JStr(<<"T", "o", "g", "g", "l", "e">>))>>,
          <<custom, Values1(K_level, JStr(S_toggle))>>,
          <<custom, Values1(K_level, JStr(<<"L", "O">>))>>,
          <<custom, Values1(K_level, JStr(<<"H", "i">>))>>}

(***************************************************************************)
(* The transport (axios) and the device behind it.                         *)
(***************************************************************************)
\* How many invocations of turnStates one behaviour makes.
MaxInvocations == 2

\* What the network and the device do with one request: the request fails
\* on the way (net = "fail", with the transport's message) or is answered
\* with a status and a body; apply says whether the device took a state-set.
Answer(status, data, apply) ==
    [net |-> "ok", status |-> status, data |-> data, message |-> "", apply |-> apply]
Failure(message) ==
    [net |-> "fail", status |-> 0, data |-> JUndef, message |-> message, apply |-> FALSE]

NetworkError == "connect ECONNREFUSED"

\* The message of the error axios raises for a status validateStatus rejects.
StatusMessage(status) ==
    CASE status = 200 -> "Request failed with status code 200"
      [] status = 403 -> "Request failed with status code 403"
      [] OTHER -> "Request failed with status code 500"

\* validateStatus: status === 401 for the challenge, axios' default otherwise.
validateStatus(only401, status) ==
    IF only401 THEN status = 401 ELSE status >= 200 /\ status < 300

\* #post: the response, or {error: message} for whatever axios throws.
\* error = "" stands for a response without an error field.
post(only401, o) ==
    IF o.net = "fail" THEN [error |-> o.message, status |-> 0, data |-> JUndef]
    ELSE IF validateStatus(only401, o.status)
    THEN [error |-> "", status |-> o.status, data |-> o.data]
    ELSE [error |-> StatusMessage(o.status), status |-> 0, data |-> JUndef]

\* #fetchValues: the error response, the non-empty lines of the body, or
\* undefined for a response without data.
fetchValues(only401, o) ==
    LET response == post(only401, o)
    IN IF response.error # ""
       THEN [kind |-> "error", error |-> response.error, arr |-> <<>>]
       ELSE IF response.data.t = "str"
       THEN [kind |-> "array", error |-> "",
             arr |-> filterTruthy(split(response.data.s, separator))]
       ELSE [kind |-> "undefined", error |-> "", arr |-> <<>>]

\* a[i] of a JavaScript array of strings (zero based), undefined past its end.
at(a, i) == IF i + 1 <= Len(a) THEN JStr(a[i + 1]) ELSE JUndef

\* encrypt of tpl-utils.mjs, by its contract: a deterministic function of its
\* arguments, kept symbolic.
encryptPassword(password) == <<"encrypt", password>>
encrypt(value, key, key2) == <<"encrypt", value, key, key2>>

\* The identifier made of the challenge's values at index 0 and 1, which are
\* the same in every challenge.
getId_constantValues(authInfo, password) ==
    encrypt(at(authInfo, 0), encryptPassword(password), at(authInfo, 1))

\* #getId
getId(authInfo, password) ==
    encrypt(at(authInfo, 3), encryptPassword(password), at(authInfo, 4))

NoId == <<>>

\* The requests: params {code, asyn, id} and the body.
Request(op, code, asyn, id, data) ==
    [op |-> op, code |-> code, asyn |-> asyn, id |-> id, data |-> data]
fetchAuthInfo == Request("fetchAuthInfo", 7, 1, NoId, <<>>)
login(id) == Request("login", 7, 0, id, <<>>)
logout(id) == Request("logout", 11, 0, id, <<>>)
fetchState(id, data) == Request("fetchState", 2, 0, id, data)
setState(id, data) == Request("setState", 1, 0, id, data)

\* The device: its keys in the order of its dump, and its raw values.
DeviceKeys == <<K_enable, K_x, K_mode, K_level, K_name>>

RECURSIVE DumpLines(_, _)
DumpLines(dev, i) ==
    IF i > Len(DeviceKeys) THEN <<>>
    ELSE separator \o DeviceKeys[i] \o <<" ">> \o dev[DeviceKeys[i]] \o DumpLines(dev, i + 1)

\* The body of the device's answer to a state-get: two header lines, then
\* one "<key> <value>" line per key.
Dump(dev, commandId) ==
    <<"0", "0", "0", "0", "0">> \o separator \o <<"i", "d", " ">> \o commandId
        \o DumpLines(dev, 1)

\* The device's state after it has taken the update body: every "<key> <value>"
\* line of a key it has sets that key (the last line of a key wins).
Apply(dev, body) ==
    LET lines == split(body, separator)
        keyOf(l) == IF FirstAt(l, <<" ">>) = 0 THEN l ELSE SubSeq(l, 1, FirstAt(l, <<" ">>) - 1)
        valOf(l) == IF FirstAt(l, <<" ">>) = 0 THEN <<>> ELSE SubSeq(l, FirstAt(l, <<" ">>) + 1, Len(l))
        hits(k) == {i \in 2..Len(lines) : keyOf(lines[i]) = k}
    IN [k \in DOMAIN dev |->
           IF hits(k) = {} THEN dev[k]
           ELSE valOf(lines[CHOOSE i \in hits(k) : \A j \in hits(k) : j <= i])]

SuccessBody == <<"0", "0", "0", "0", "0">>
ErrorBody == <<"0", "0", "0", "4", " ", "e", "r", "r", "o", "r", " ", "t", "e", "x", "t">>
OkBody == SuccessBody \o <<"O", "K">>
FourZeroBody == <<"0", "0", "0", "0">>

\* The challenge of invocation k: five values, the one at index 3 fresh.
ChallengeBody(k) ==
    <<"a">> \o separator \o <<"b">> \o separator \o <<"c">> \o separator
        \o NatToStr(k) \o separator \o <<"e">>
ShortChallengeBody == <<"a">> \o separator \o <<"b">>

ChallengeOutcomes(k) ==
    {Answer(401, JStr(ChallengeBody(k)), FALSE), Answer(401, JStr(ShortChallengeBody), FALSE),
     Answer(401, JUndef, FALSE), Answer(200, JStr(<<"o", "k">>), FALSE),
     Failure(NetworkError)}
LoginOutcomes ==
    {Answer(200, JStr(<<>>), FALSE), Answer(204, JStr(<<>>), FALSE),
     Answer(403, JStr(<<>>), FALSE), Failure(NetworkError)}
FetchStateOutcomes(dev, commandId) ==
    {Answer(200, JStr(Dump(dev, commandId)), FALSE), Answer(200, JStr(<<>>), FALSE),
     Answer(200, JUndef, FALSE), Failure(NetworkError)}
SetStateOutcomes ==
    {Answer(200, JStr(SuccessBody), TRUE), Answer(200, JStr(OkBody), TRUE),
     Answer(200, JStr(ErrorBody), FALSE), Answer(200, JStr(FourZeroBody), FALSE),
     Answer(500, JStr(<<>>), FALSE), Failure(NetworkError)}
LogoutOutcomes == {Answer(200, JStr(<<>>), FALSE), Failure(NetworkError)}

(***************************************************************************)
(* The controller.  A step runs the code from one await to the next: it    *)
(* takes the answer to the request in flight and sends the next request or *)
(* returns.                                                                *)
(***************************************************************************)
VARIABLES
    settings,   \* this.settings: [ipAddress, password], "" for a missing one
    device,     \* the device's raw value of each of its keys
    n,          \* the invocations of turnStates started so far
    pc,         \* "idle", "returned", or the request whose answer is awaited
    command,    \* the invocation's command
    values,     \* the invocation's desired states
    states,     \* #validateStates' result
    id,         \* the session identifier of #process
    result,     \* the result object of #process
    sent,       \* the requests the invocation has sent, in order
    recv,       \* what #post returned for them, in order
    ret,        \* how the invocation ended
    prev,       \* the previous invocation's call and the dump it read, kept when
                \* it returned "success"
    turn,        \* the invocation that runs, 1 or 2
    other       \* the controller, device and invocation suspended at an await

vars ==
    <<settings, device, n, pc, command, values, states, id, result, sent, recv, ret, prev,
      turn, other>>

\* #state
state(s) == [hasState |-> TRUE, state |-> s]

\* const result = {}
emptyResult == [hasState |-> FALSE, state |-> ""]

Pending == [kind |-> "pending", hasState |-> FALSE, state |-> ""]
ReturnObject(obj) == [kind |-> "object", hasState |-> obj.hasState, state |-> obj.state]
ReturnUndefined == [kind |-> "undefined", hasState |-> FALSE, state |-> ""]
Throw(error) == [kind |-> "throw", hasState |-> FALSE, state |-> error]

NoPrev == [success |-> FALSE, command |-> noCommand, values |-> noValues, dump |-> <<>>]

DeviceStates ==
    {[k \in {DeviceKeys[i] : i \in 1..Len(DeviceKeys)} |->
         CASE k = K_enable -> e [] k = K_x -> x [] k = K_mode -> <<"0">>
           [] k = K_level -> <<"2">> [] OTHER -> <<"a", " ", "b">>] :
       e \in {<<"0">>, <<"1">>, <<"-", "1">>}, x \in {<<"5">>}}

\* No second invocation: a controller used by one caller at a time.
NoInvocation == [pc |-> "none"]

Settings ==
    {[ipAddress |-> a, password |-> p] : a \in {"", "192.168.178.1"}, p \in {"", "****"}}

Init ==
    /\ settings \in Settings
    /\ device \in DeviceStates
    /\ n = 0
    /\ pc = "idle"
    /\ command = noCommand
    /\ values = noValues
    /\ states = noValues
    /\ id = NoId
    /\ result = emptyResult
    /\ sent = <<>>
    /\ recv = <<>>
    /\ ret = Pending
    /\ prev = NoPrev
    /\ turn = 1
    /\ other = NoInvocation

\* The login taken as granted by any response without an error.
loginGranted_anyResponse(response) == response.error = ""

\* #process: status === 200, the login is granted.
loginGranted(response) == response.status = 200

\* The test `if (values)` in place of `values?.length`: an error object and an
\* empty array are truthy.
hasValues_orError(vals) == vals.kind # "undefined"

\* #process: values?.length, the state-get returned lines.
hasValues(vals) == vals.kind = "array" /\ Len(vals.arr) # 0

\* turnStates: ipAddress && password
configured(s) == s.ipAddress # "" /\ s.password # ""

\* turnStates, and #process up to its first await.
turnStates(c, v) ==
    /\ pc \in {"idle", "returned"}
    /\ n < MaxInvocations
    /\ n' = n + 1
    /\ prev' = IF ret = ReturnObject(state("success"))
               THEN [success |-> TRUE, command |-> command, values |-> values,
                     dump |-> recv[3].data.s]
               ELSE NoPrev
    /\ command' = c
    /\ values' = v
    /\ id' = NoId
    /\ result' = emptyResult
    /\ recv' = <<>>
    /\ UNCHANGED <<settings, device>>
    /\ IF c.defined
       THEN LET st == validateStates(c, v)
            IN /\ states' = st
               /\ IF st.defined
                  THEN IF configured(settings)
                       THEN /\ sent' = <<fetchAuthInfo>>
                            /\ pc' = "fetchAuthInfo"
                            /\ ret' = Pending
                       ELSE /\ sent' = <<>>
                            /\ pc' = "returned"
                            /\ ret' = ReturnUndefined
                  ELSE /\ sent' = <<>>
                       /\ pc' = "returned"
                       /\ ret' = ReturnObject(state("invalid state"))
       ELSE /\ states' = noValues
            /\ sent' = <<>>
            /\ pc' = "returned"
            /\ ret' = ReturnObject(state("invalid command"))

\* #process from the answer to the challenge to the login request.
afterFetchAuthInfo(o) ==
    /\ pc = "fetchAuthInfo"
    /\ recv' = Append(recv, post(TRUE, o))
    /\ UNCHANGED <<settings, device, n, command, values, states, result, prev>>
    /\ LET authInfo == fetchValues(TRUE, o)
       IN IF authInfo.kind # "undefined"
          THEN IF authInfo.kind = "error"
               THEN /\ ret' = ReturnObject(state(authInfo.error))
                    /\ pc' = "returned"
                    /\ UNCHANGED <<id, sent>>
               ELSE /\ id' = getId(authInfo.arr, settings.password)
                    /\ sent' = Append(sent, login(id'))
                    /\ pc' = "login"
                    /\ UNCHANGED ret
          ELSE /\ ret' = ReturnObject(result)
               /\ pc' = "returned"
               /\ UNCHANGED <<id, sent>>

\* #process from the answer to the login to the state-get request.
afterLogin(o) ==
    /\ pc = "login"
    /\ recv' = Append(recv, post(FALSE, o))
    /\ UNCHANGED <<settings, device, n, command, values, states, id, result, prev>>
    /\ LET response == post(FALSE, o)
       IN IF loginGranted(response)
          THEN /\ sent' = Append(sent, fetchState(id, command.id))
               /\ pc' = "fetchState"
               /\ UNCHANGED ret
          ELSE IF response.error # ""
          THEN /\ ret' = ReturnObject(state(response.error))
               /\ pc' = "returned"
               /\ UNCHANGED sent
          ELSE /\ ret' = ReturnObject(result)
               /\ pc' = "returned"
               /\ UNCHANGED sent

\* #process from the answer to the state-get, and #processState up to the
\* state-set request, or to the logout request when nothing is to be set.
afterFetchState(o) ==
    /\ pc = "fetchState"
    /\ recv' = Append(recv, post(FALSE, o))
    /\ UNCHANGED <<settings, device, n, command, values, states, id, prev>>
    /\ LET vals == fetchValues(FALSE, o)
       IN IF hasValues(vals)
          THEN LET data == mergeStates(command, states.obj, vals.arr)
               IN IF data # <<>>
                  THEN /\ sent' = Append(sent, setState(id, data))
                       /\ pc' = "setState"
                       /\ UNCHANGED <<result, ret>>
                  ELSE /\ result' = state("no action")
                       /\ sent' = Append(sent, logout(id))
                       /\ pc' = "logout"
                       /\ UNCHANGED ret
          ELSE /\ ret' = ReturnObject(result)
               /\ pc' = "returned"
               /\ UNCHANGED <<result, sent>>

\* #processState from the answer to the state-set, and #process up to the
\* logout request.  The device takes the update when it answers so.
afterSetState(o) ==
    /\ pc = "setState"
    /\ recv' = Append(recv, post(FALSE, o))
    /\ device' = IF o.apply THEN Apply(device, sent[Len(sent)].data) ELSE device
    /\ UNCHANGED <<settings, n, command, values, states, id, prev>>
    /\ LET response == post(FALSE, o)
       IN IF response.data.t = "str"
          THEN /\ result' = state(IF startsWith(response.data.s, SuccessBody)
                                  THEN "success" ELSE "error")
               /\ sent' = Append(sent, logout(id))
               /\ pc' = "logout"
               /\ UNCHANGED ret
          ELSE /\ ret' = Throw("TypeError")
               /\ pc' = "returned"
               /\ UNCHANGED <<result, sent>>

\* #process from the answer to the logout to its return.
afterLogout(o) ==
    /\ pc = "logout"
    /\ recv' = Append(recv, post(FALSE, o))
    /\ ret' = ReturnObject(result)
    /\ pc' = "returned"
    /\ UNCHANGED <<settings, device, n, command, values, states, id, result, sent, prev>>

\* The invocation that runs keeps running; the suspended one stays as it is.
Running == UNCHANGED <<turn, other>>

Next ==
    \/ \E call \in Calls : turnStates(call[1], call[2]) /\ Running
    \/ \E o \in ChallengeOutcomes(n) : afterFetchAuthInfo(o) /\ Running
    \/ \E o \in LoginOutcomes : afterLogin(o) /\ Running
    \/ \E o \in FetchStateOutcomes(device, command.id) : afterFetchState(o) /\ Running
    \/ \E o \in SetStateOutcomes : afterSetState(o) /\ Running
    \/ \E o \in LogoutOutcomes : afterLogout(o) /\ Running

Spec == Init /\ [][Next]_vars

(***************************************************************************)
(* Two controllers, each for its own device, each with one invocation; the *)
(* invocations interleave at their awaits.  All that an invocation reads   *)
(* and writes between two awaits is its controller's settings, its own     *)
(* parameters and the local constants of #process: this is the context     *)
(* that is set aside while the other invocation runs.                      *)
(***************************************************************************)
Context ==
    [settings |-> settings, device |-> device, n |-> n, pc |-> pc,
     command |-> command, values |-> values, states |-> states, id |-> id,
     result |-> result, sent |-> sent, recv |-> recv, ret |-> ret, prev |-> prev]

\* The session identifier kept in one place for both invocations, not in a
\* local constant of each.
Switch_sharedId ==
    /\ turn' = 3 - turn
    /\ other' = Context
    /\ settings' = other.settings /\ device' = other.device /\ n' = other.n
    /\ pc' = other.pc /\ command' = other.command /\ values' = other.values
    /\ states' = other.states /\ result' = other.result
    /\ sent' = other.sent /\ recv' = other.recv /\ ret' = other.ret
    /\ prev' = other.prev
    /\ id' = id

\* The running invocation is suspended at its await (or has not started, or
\* has returned), and the other one goes on where it was.
Switch ==
    /\ turn' = 3 - turn
    /\ other' = Context
    /\ settings' = other.settings /\ device' = other.device /\ n' = other.n
    /\ pc' = other.pc /\ command' = other.command /\ values' = other.values
    /\ states' = other.states /\ id' = other.id /\ result' = other.result
    /\ sent' = other.sent /\ recv' = other.recv /\ ret' = other.ret
    /\ prev' = other.prev

\* The calls of the two interleaved invocations.
PairCalls ==
    {<<led, Values1(K_enable, JStr(S_toggle))>>, <<led, Values1(K_enable, JStr(S_on))>>,
     <<led, Values1(K_x, JStr(<<"5">>))>>}

\* Two controllers with different addresses and passwords, their devices with
\* different values of `enable`.
InitPair ==
    /\ settings = [ipAddress |-> "192.168.178.1", password |-> "****"]
    /\ device \in {d \in DeviceStates : d[K_enable] = <<"0">>}
    /\ n = 0
    /\ pc = "idle"
    /\ command = noCommand
    /\ values = noValues
    /\ states = noValues
    /\ id = NoId
    /\ result = emptyResult
    /\ sent = <<>>
    /\ recv = <<>>
    /\ ret = Pending
    /\ prev = NoPrev
    /\ turn = 1
    /\ \E d \in {d \in DeviceStates : d[K_enable] = <<"1">>} :
          other = [settings |-> [ipAddress |-> "192.168.178.2", password |-> "secret"],
                   device |-> d, n |-> 0, pc |-> "idle", command |-> noCommand,
                   values |-> noValues, states |-> noValues, id |-> NoId,
                   result |-> emptyResult, sent |-> <<>>, recv |-> <<>>,
                   ret |-> Pending, prev |-> NoPrev]

NextPair ==
    \/ \E call \in PairCalls : n = 0 /\ turnStates(call[1], call[2]) /\ Running
    \/ \E o \in ChallengeOutcomes(n) : afterFetchAuthInfo(o) /\ Running
    \/ \E o \in LoginOutcomes : afterLogin(o) /\ Running
    \/ \E o \in FetchStateOutcomes(device, command.id) : afterFetchState(o) /\ Running
    \/ \E o \in SetStateOutcomes : afterSetState(o) /\ Running
    \/ \E o \in LogoutOutcomes : afterLogout(o) /\ Running
    \/ Switch

SpecPair == InitPair /\ [][NextPair]_vars

(***************************************************************************)
(* Properties.                                                             *)
(***************************************************************************)
Ops(requests) == [i \in 1..Len(requests) |-> requests[i].op]

\* The place of a request in the cycle.
Rank(op) ==
    CASE op = "fetchAuthInfo" -> 1 [] op = "login" -> 2 [] op = "fetchState" -> 3
      [] op = "setState" -> 4 [] OTHER -> 5

\* A response that is a non-empty dump: no error, a body with a non-empty line.
NonEmptyDump(response) ==
    /\ response.error = ""
    /\ response.data.t = "str"
    /\ \E i \in 1..Len(response.data.s) : response.data.s[i] \notin {"\r", "\n"}

\* C1: a login is sent only after the invocation's challenge request returned
\* a challenge (status 401, no error), a state-get only after its login returned
\* status 200, a state-set only after that state-get returned a non-empty dump,
\* and the requests of an invocation are sent in the order challenge, login,
\* state-get, state-set, logout.
C1_RequestOrder ==
    /\ Len(recv) \in {Len(sent), Len(sent) - 1}
    /\ \A i \in 1..Len(sent) :
        /\ i = 1 => sent[i].op = "fetchAuthInfo"
        /\ i > 1 => Rank(sent[i - 1].op) < Rank(sent[i].op)
        /\ sent[i].op = "login" =>
              /\ i > 1 /\ sent[i - 1].op = "fetchAuthInfo"
              /\ recv[i - 1].error = "" /\ recv[i - 1].status = 401
              /\ recv[i - 1].data.t = "str"
        /\ sent[i].op = "fetchState" =>
              /\ i > 1 /\ sent[i - 1].op = "login"
              /\ recv[i - 1].error = "" /\ recv[i - 1].status = 200
        /\ sent[i].op = "setState" =>
              /\ i > 1 /\ sent[i - 1].op = "fetchState"
              /\ NonEmptyDump(recv[i - 1])

\* A whole cycle was sent: challenge, login, state-get, state-set, logout.
C1_Witness ==
    Ops(sent) = <<"fetchAuthInfo", "login", "fetchState", "setState", "logout">>

\* The invocation has returned (or thrown); the challenge it got, if any, held
\* the values at index 3 and 4 from which #getId derives the identifier.
Returned ==
    /\ pc = "returned" /\ ret.kind # "pending"
    /\ id = NoId \/ (id[2].t = "str" /\ id[4].t = "str")

SentOp(op) == \E i \in 1..Len(sent) : sent[i].op = op

\* C2: an invocation sends a logout request if and only if it obtained a
\* session identifier and sent the state-get request, whatever the answer to
\* the state-get is.
C2_LogoutIffStateRead ==
    Returned => (SentOp("logout") <=> (id # NoId /\ SentOp("fetchState")))

\* C3: whenever an invocation has sent a state-set request, it sends a logout
\* request with the same session identifier later, for every outcome of the
\* state-set request.
C3_LogoutAfterStateSet ==
    Returned =>
        \A i \in 1..Len(sent) :
            sent[i].op = "setState" =>
                \E j \in (i + 1)..Len(sent) :
                    sent[j].op = "logout" /\ sent[j].id = sent[i].id

\* C6: if the challenge, login, state-get or state-set request of an invocation
\* fails with message m, turnStates returns {state: m}.
C6_ErrorSurfaced ==
    Returned =>
        \A i \in 1..Len(recv) :
            (sent[i].op # "logout" /\ recv[i].error # "") =>
                ret = ReturnObject(state(recv[i].error))

\* C7: with address and password configured, an invocation ends by returning
\* a result object; no answer and no transport error makes it throw.
C7_NeverThrows ==
    (Returned /\ configured(settings)) => ret.kind = "object"

\* C10: with a valid command and valid states but the address or the password
\* missing, turnStates sends no request and returns an empty result object.
C10_MissingConfiguration ==
    (Returned /\ command.defined /\ states.defined /\ ~configured(settings)) =>
        (sent = <<>> /\ ret.kind = "object" /\ ~ret.hasState)

\* s and a are the same string up to the case of their letters.
SameIgnoringCase(s, a) ==
    /\ Len(s) = Len(a)
    /\ \A i \in 1..Len(s) :
          \/ s[i] = a[i]
          \/ \E j \in 1..26 : {s[i], a[i]} = {UpperChars[j], LowerChars[j]}

NoUpperCase(a) == \A i \in 1..Len(a) : \A j \in 1..26 : a[i] # UpperChars[j]

\* The entry of desired states e asks for an alias of its key, or for a toggle
\* of it (the toggle keyword on a key that toggles, no alias being matched).
AliasRequested(e, alias) ==
    /\ command.hasKeys /\ hasKey(command.keys, e.k)
    /\ getKey(command.keys, e.k).hasAliases
    /\ \E i \in 1..Len(getKey(command.keys, e.k).aliases) :
          getKey(command.keys, e.k).aliases[i] = alias
    /\ SameIgnoringCase(ToStr(e.v), alias.k)

ToggleRequested(e) ==
    /\ command.hasKeys /\ hasKey(command.keys, e.k)
    /\ getKey(command.keys, e.k).toggle
    /\ SameIgnoringCase(ToStr(e.v), S_toggle)
    /\ ~ (getKey(command.keys, e.k).hasAliases
          /\ \E i \in 1..Len(getKey(command.keys, e.k).aliases) :
                SameIgnoringCase(ToStr(e.v), getKey(command.keys, e.k).aliases[i].k))

\* The raw value a toggle of key yields against the current raw value cur (a
\* string, or undefined for a key the dump does not list): with
\* exactly two aliases the first one's value unless cur equals it, then the
\* second one's; otherwise "0" unless cur is "0", then "1".
ToggledValue(key, cur) ==
    LET spec == getKey(command.keys, key)
    IN IF spec.hasAliases /\ Len(spec.aliases) = 2
       THEN (IF cur = JStr(ToStr(spec.aliases[1].v))
             THEN ToStr(spec.aliases[2].v) ELSE ToStr(spec.aliases[1].v))
       ELSE (IF cur # JStr(<<"0">>) THEN <<"0">> ELSE <<"1">>)

\* The reconciliation has just run: after a challenge of five values and a
\* login, the state-get was answered with a dump and the next request
\* (state-set or logout) is in flight; device is what the dump reported.
Merged ==
    /\ Len(sent) = 4 /\ Len(recv) = 3
    /\ id[2].t = "str" /\ id[4].t = "str"

\* The "<key> <value>" lines of the update body sent, none without a state-set.
UpdateLines ==
    IF Merged /\ sent[4].op = "setState" THEN Tail(split(sent[4].data, separator)) ELSE <<>>

LinesOf(key) == {i \in 1..Len(UpdateLines) : startsWith(UpdateLines[i], key \o <<" ">>)}

\* The resolved new raw value of the i-th resolved state, after toggle resolution.
ResolvedValue(i) ==
    LET k == states.obj[i].k
    IN IF \E j \in 1..Len(values.obj) : values.obj[j].k = k /\ ToggleRequested(values.obj[j])
       THEN ToggledValue(k, JStr(device[k]))
       ELSE ToStr(states.obj[i].v)

\* The key's current raw value holds no space (C17 is about those that do).
Unspaced(key) == \A p \in 1..Len(device[key]) : device[key][p] # " "

\* C4: a key of the resolved states appears as a "<key> <value>" line in the
\* update body if and only if its resolved new raw value (after toggle
\* resolution) differs from the key's current raw value.  Stated for the keys
\* whose current raw value holds no space.
C4_Minimality ==
    Merged =>
        \A i \in 1..Len(states.obj) :
            Unspaced(states.obj[i].k) =>
                ((LinesOf(states.obj[i].k) # {})
                    <=> (ResolvedValue(i) # device[states.obj[i].k]))

\* C5: for a desired-state key absent from the command's keys, the value sent
\* in the update body is the supplied value as a string.
C5_UnknownKeyPassthrough ==
    Merged =>
        \A j \in 1..Len(values.obj) :
            ~hasKey(command.keys, values.obj[j].k) =>
                \A i \in LinesOf(values.obj[j].k) :
                    UpdateLines[i] = values.obj[j].k \o <<" ">> \o ToStr(values.obj[j].v)

NoToggleRequested == \A j \in 1..Len(values.obj) : ~ToggleRequested(values.obj[j])

\* Reconciliation yielded "no action": no state-set, the logout sent instead.
NoAction == sent[4].op = "logout" /\ result = state("no action")

\* The first half of C8: without toggle, a current state equal to the resolved
\* states yields "no action" and no state-set, and {state: "no action"} is returned.
\* Stated for the keys whose current raw value holds no space.
C8_NoActionWhenEqual ==
    /\ (Merged /\ NoToggleRequested
          /\ \A i \in 1..Len(states.obj) :
                /\ Unspaced(states.obj[i].k)
                /\ ToStr(states.obj[i].v) = device[states.obj[i].k])
         => NoAction
    /\ (Returned /\ Len(sent) = 4 /\ sent[4].op = "logout")
         => (ret = ReturnObject(state("no action")) /\ ~SentOp("setState"))

\* C8: for a request without toggle, a current state equal to the resolved
\* desired states yields "no action" with no state-set; in particular so does
\* an invocation that follows a successful one with the same desired states.
C8_Idempotence ==
    /\ C8_NoActionWhenEqual
    /\ (Merged /\ NoToggleRequested /\ prev.success
          /\ prev.command = command /\ prev.values = values
          /\ \A i \in 1..Len(states.obj) : Unspaced(states.obj[i].k))
         => NoAction

\* Current raw values a key is toggled against.
CurrentSamples ==
    {JStr(c) : c \in {<<"0">>, <<"1">>, <<"2">>, <<"3">>, <<"5">>, <<"-", "1">>}} \cup {JUndef}

Validated == pc # "idle" /\ command.defined /\ states.defined

\* Toggle resolution, as #getUpcomingValue computes it and as the update body
\* carries it, and the three cases of the aliases {on: 1, off: 0}.
C9_ToggleResolution ==
    /\ Validated =>
          \A i \in 1..Len(command.keys) :
              command.keys[i].v.toggle =>
                  \A cur \in CurrentSamples :
                      getUpcomingValue(command, command.keys[i].k, ToStr(JNum(-1)), cur)
                          = ToggledValue(command.keys[i].k, cur)
    /\ Merged =>
          \A j \in 1..Len(values.obj) :
              ToggleRequested(values.obj[j]) =>
                  \A i \in LinesOf(values.obj[j].k) :
                      UpdateLines[i] = values.obj[j].k \o <<" ">>
                          \o ToggledValue(values.obj[j].k, JStr(device[values.obj[j].k]))
    /\ (Merged /\ command = led /\ device[K_enable] = <<"0">>
          /\ values \in {Values1(K_enable, JStr(S_on)), Values1(K_enable, JStr(S_toggle))})
         => UpdateLines = <<K_enable \o <<" ", "1">>>>
    /\ (Merged /\ command = led /\ device[K_enable] = <<"1">>
          /\ values = Values1(K_enable, JStr(S_toggle)))
         => UpdateLines = <<K_enable \o <<" ", "0">>>>

\* C9 as claimed: a requested value that matches an alias name up to case is
\* replaced by that alias's raw value; a toggle on a key of exactly two aliases
\* yields the first alias's value unless the current value equals it, then the
\* second's; a toggle on any other key yields "0" unless the current value is
\* "0", then "1".
C9_AliasAndToggle ==
    /\ Validated =>
          \A j \in 1..Len(values.obj) :
              \A i \in 1..Len(command.keys) :
                  \A a \in 1..Len(command.keys[i].v.aliases) :
                      AliasRequested(values.obj[j], command.keys[i].v.aliases[a]) =>
                          /\ hasKey(states.obj, values.obj[j].k)
                          /\ getKey(states.obj, values.obj[j].k) = command.keys[i].v.aliases[a].v
    /\ C9_ToggleResolution

\* C9 as amended: the requested value is matched by an alias name that holds
\* no upper-case letter; the toggle rules are as claimed.
C9_LowerCaseAliasAndToggle ==
    /\ Validated =>
          \A j \in 1..Len(values.obj) :
              \A i \in 1..Len(command.keys) :
                  \A a \in 1..Len(command.keys[i].v.aliases) :
                      (/\ AliasRequested(values.obj[j], command.keys[i].v.aliases[a])
                       /\ NoUpperCase(command.keys[i].v.aliases[a].k)) =>
                          /\ hasKey(states.obj, values.obj[j].k)
                          /\ getKey(states.obj, values.obj[j].k) = command.keys[i].v.aliases[a].v
    /\ C9_ToggleResolution

\* An alias requested in another case than its name's was replaced by its raw
\* value, which the update body carries.
C9_Witness ==
    /\ Merged
    /\ \E j \in 1..Len(values.obj) :
          /\ LinesOf(values.obj[j].k) # {}
          /\ \E i \in 1..Len(command.keys) :
                \E a \in 1..Len(command.keys[i].v.aliases) :
                    /\ AliasRequested(values.obj[j], command.keys[i].v.aliases[a])
                    /\ ToStr(values.obj[j].v) # command.keys[i].v.aliases[a].k
                    /\ NoUpperCase(command.keys[i].v.aliases[a].k)
                    /\ \A l \in LinesOf(values.obj[j].k) :
                          UpdateLines[l] = values.obj[j].k \o <<" ">>
                              \o ToStr(command.keys[i].v.aliases[a].v)

\* C11: turnStates returns {state: "invalid command"} without a command, and
\* {state: "invalid state"} when the command has no keys (absent or an empty
\* mapping) or no desired states were supplied (absent or an empty map); in
\* each case no request is sent.  Stated for a controller that has an address
\* and a password.
C11_ValidationShortCircuit ==
    (pc # "idle" /\ configured(settings)) =>
        /\ ~command.defined =>
              (ret = ReturnObject(state("invalid command")) /\ sent = <<>>)
        /\ (command.defined
              /\ (~command.hasKeys \/ command.keys = <<>>
                    \/ ~values.defined \/ values.obj = <<>>)) =>
              (ret = ReturnObject(state("invalid state")) /\ sent = <<>>)

\* C12: within one invocation each kind of request is sent at most once, and
\* once a request of the invocation has returned an error no further request
\* is sent.
C12_NoRetries ==
    /\ \A i, j \in 1..Len(sent) : sent[i].op = sent[j].op => i = j
    /\ \A i \in 1..Len(recv) : recv[i].error # "" => Len(sent) = i

\* An invocation that ended on the error of its state-get request.
C12_Witness ==
    /\ pc = "returned"
    /\ Len(recv) = 3
    /\ recv[3].error # ""
    /\ Ops(sent) = <<"fetchAuthInfo", "login", "fetchState">>

\* The state-set request was sent and an answer with a body came back.
SetAnswered ==
    /\ Len(recv) >= 4
    /\ sent[4].op = "setState"
    /\ recv[4].error = ""
    /\ recv[4].data.t = "str"

BeginsWithMarker(body) == Len(body) >= 5 /\ \A i \in 1..5 : body[i] = "0"

\* C13: when a state-set request was sent and answered, the invocation's
\* state is "success" if and only if the body begins with the five characters
\* "00000", and "error" for every other body; the outcome of the logout that
\* follows never changes it.
C13_SuccessMarker ==
    SetAnswered =>
        LET marked == state(IF BeginsWithMarker(recv[4].data.s)
                            THEN "success" ELSE "error")
        IN /\ result = marked
           /\ pc = "returned" => ret = ReturnObject(marked)
           /\ recv[4].data.s = OkBody => result = state("success")
           /\ recv[4].data.s = ErrorBody => result = state("error")

\* The body "00000OK" was answered, and the logout failed.
C13_Witness ==
    /\ Returned
    /\ SetAnswered
    /\ recv[4].data.s = OkBody
    /\ Len(recv) = 5
    /\ recv[5].error # ""
    /\ ret = ReturnObject(state("success"))

\* A state-set request was sent.
SetSent == Len(sent) >= 4 /\ sent[4].op = "setState"

\* The body of the LED example: "id 112|1,0,0" CRLF "enable 1".
LedToggleBody ==
    <<"i", "d", " ", "1", "1", "2", "|", "1", ",", "0", ",", "0", "\r", "\n",
      "e", "n", "a", "b", "l", "e", " ", "1">>

\* The position in the desired states of the key that a line of the body sets,
\* 0 when the line sets none of them.
DesiredIndex(line) ==
    LET hits == {j \in 1..Len(values.obj) :
                    startsWith(line, values.obj[j].k \o <<" ">>)}
    IN IF hits = {} THEN 0 ELSE CHOOSE j \in hits : TRUE

\* C14: every state-set body is "id <command.id>" followed, for each changed
\* key in the order of the desired states, by CRLF and "<key> <value>"; it is
\* never empty and never the id line alone.  For the LED command, current
\* "enable 0" and desired {enable: "toggle"} the body is
\* "id 112|1,0,0\r\nenable 1", and on a success marker {state: "success"} is
\* returned.
C14_UpdatePayloadFormat ==
    /\ SetSent =>
          LET lines == split(sent[4].data, <<"\r", "\n">>)
          IN /\ Len(lines) >= 2
             /\ lines[1] = <<"i", "d", " ">> \o command.id
             /\ \A i \in 2..Len(lines) :
                   /\ DesiredIndex(lines[i]) # 0
                   /\ Len(lines[i]) > Len(values.obj[DesiredIndex(lines[i])].k) + 1
             /\ \A i, j \in 2..Len(lines) :
                   i < j => DesiredIndex(lines[i]) < DesiredIndex(lines[j])
    /\ (/\ Len(sent) = 4 /\ Len(recv) = 3
        /\ NonEmptyDump(recv[3])
        /\ command = led
        /\ values = Values1(K_enable, JStr(S_toggle))
        /\ device[K_enable] = <<"0">>) => (SetSent /\ sent[4].data = LedToggleBody)
    /\ (/\ SetSent /\ sent[4].data = LedToggleBody
        /\ SetAnswered /\ BeginsWithMarker(recv[4].data.s)
        /\ pc = "returned") => ret = ReturnObject(state("success"))

\* A body of two lines in the order of the desired states {x: "0", enable: "On"}
\* was sent and acknowledged.
C14_Witness ==
    /\ Returned
    /\ SetSent
    /\ values = Values2(K_x, JStr(<<"0">>), K_enable, JStr(<<"O", "n">>))
    /\ sent[4].data = <<"i", "d", " ">> \o led.id
                         \o <<"\r", "\n", "x", " ", "0", "\r", "\n">>
                         \o <<"e", "n", "a", "b", "l", "e", " ", "1">>
    /\ ret = ReturnObject(state("success"))

\* The challenge request was answered with a body that, split on CRLF and
\* filtered of empty lines, holds fewer than five values.
MalformedChallenge ==
    /\ Len(recv) >= 1
    /\ recv[1].error = ""
    /\ recv[1].data.t = "str"
    /\ Len(filterTruthy(split(recv[1].data.s, <<"\r", "\n">>))) < 5

OwnChallenge == filterTruthy(split(recv[1].data.s, <<"\r", "\n">>))
ChallengeValue(i) ==
    IF Len(OwnChallenge) > i THEN JStr(OwnChallenge[i + 1]) ELSE JUndef

\* C16: in every invocation the login, state-get, state-set and logout
\* requests all carry the same id, equal to
\* transform(challenge[3], transform(password), challenge[4]) for the value
\* list of the invocation's own challenge request; the identifier or challenge
\* of an earlier invocation is never reused (the device's challenge of
\* invocation n holds the decimal of n at index 3).
C16_SessionIdentifier ==
    \A i \in 2..Len(sent) :
        /\ sent[i].id = encrypt(ChallengeValue(3), encryptPassword(settings.password),
                                ChallengeValue(4))
        /\ Len(OwnChallenge) = 5 => sent[i].id[2] = JStr(NatToStr(n))

\* The second invocation has sent all its five requests.
C16_Witness ==
    /\ Returned
    /\ n = 2
    /\ Ops(sent) = <<"fetchAuthInfo", "login", "fetchState", "setState", "logout">>
    /\ sent[5].id[2] = JStr(<<"2">>)

\* The lines of the dump the state-get returned.
DumpOf(response) == filterTruthy(split(response.data.s, <<"\r", "\n">>))

\* C17: the current states are the lines of the dump after the first two, each
\* split on its first space only: the whole remainder after the first space is
\* the key's current raw value, and a desired value equal to that remainder
\* produces no update of the key.
C17_CurrentStateParsing ==
    Merged =>
        LET lines == DumpOf(recv[3])
            current == getCurrentStates(lines)
            updates == IF SetSent THEN Tail(split(sent[4].data, <<"\r", "\n">>))
                       ELSE <<>>
        IN \A i \in 3..Len(lines) :
              LET p == FirstAt(lines[i], <<" ">>)
                  key == SubSeq(lines[i], 1, p - 1)
                  remainder == SubSeq(lines[i], p + 1, Len(lines[i]))
              IN p # 0 =>
                    /\ getKey(current, key) = JStr(remainder)
                    /\ \A j \in 1..Len(states.obj) :
                          (states.obj[j].k = key /\ ToStr(states.obj[j].v) = remainder)
                              => \A u \in 1..Len(updates) :
                                    ~startsWith(updates[u], key \o <<" ">>)

\* The entry of desired states e names a key of the catalog with a value that
\* matches none of the key's alias names and is no toggle of a key that toggles.
Unmatched(e) ==
    /\ command.hasKeys /\ hasKey(command.keys, e.k)
    /\ \A alias \in {getKey(command.keys, e.k).aliases[i] :
                       i \in 1..Len(getKey(command.keys, e.k).aliases)} :
          ~AliasRequested(e, alias)
    /\ ~ToggleRequested(e)

\* C18: a requested key of the command's catalog whose value matches no alias
\* name and is no accepted toggle request stays in the resolved states with its
\* supplied value, so that it takes part in the diff with the current state.
C18_UnmatchedValueKept ==
    (Validated /\ configured(settings)) =>
        \A j \in 1..Len(values.obj) :
            Unmatched(values.obj[j]) =>
                /\ hasKey(states.obj, values.obj[j].k)
                /\ getKey(states.obj, values.obj[j].k) = values.obj[j].v

\* C19: when two invocations against different devices interleave at their
\* awaits, a step of the running invocation leaves the suspended one as it is
\* and leaves its own command, desired states and settings unmodified; an
\* invocation that resumes goes on from exactly the context it was suspended
\* with; and each invocation's requests and result are those of an invocation
\* that runs alone: they keep the order, the single sending, the success
\* marker, the payload format and the session identifier of its own challenge
\* and password.
C19_Independence ==
    /\ [](C1_RequestOrder /\ C12_NoRetries /\ C13_SuccessMarker
            /\ C14_UpdatePayloadFormat /\ C16_SessionIdentifier)
    /\ [][/\ turn' = turn => other' = other
          /\ (turn' = turn /\ pc \notin {"idle", "returned"}) =>
                (command' = command /\ values' = values /\ settings' = settings)
          /\ turn' # turn => (other' = Context /\ Context' = other)]_vars

\* Both invocations have a request in flight at the same time, the second to
\* start being ahead of the first.
C19_Witness ==
    /\ turn = 2
    /\ pc = "setState"
    /\ other.pc = "login"
    /\ id # NoId /\ other.id # NoId /\ id # other.id

\* The value of the line "enable <value>" in the body of a dump.
EnableIn(body) ==
    LET lines == filterTruthy(split(body, <<"\r", "\n">>))
        hits == {i \in 1..Len(lines) : startsWith(lines[i], K_enable \o <<" ">>)}
    IN IF hits = {} THEN <<>>
       ELSE LET l == lines[CHOOSE i \in hits : TRUE]
            IN SubSeq(l, Len(K_enable) + 2, Len(l))

\* turnLed('toggle')
ToggleCall(c, v) == c = led /\ v = Values1(K_enable, JStr(S_toggle))

\* C20: against a device that applies every state-set it acknowledges with the
\* success marker and whose `enable` is "0" or "1", a successful
\* turnLed('toggle') leaves `enable` different from the value it had, two
\* successive successful ones leave it equal to the original value, and each
\* sends exactly one state-set request.
C20_ToggleInvolution ==
    (/\ pc = "returned"
     /\ ret = ReturnObject(state("success"))
     /\ ToggleCall(command, values)
     /\ EnableIn(recv[3].data.s) \in {<<"0">>, <<"1">>}) =>
        /\ device[K_enable] \in {<<"0">>, <<"1">>}
        /\ device[K_enable] # EnableIn(recv[3].data.s)
        /\ Cardinality({i \in 1..Len(sent) : sent[i].op = "setState"}) = 1
        /\ (prev.success /\ ToggleCall(prev.command, prev.values)
              /\ EnableIn(prev.dump) \in {<<"0">>, <<"1">>})
             => device[K_enable] = EnableIn(prev.dump)

\* Two successive successful toggles have brought `enable` back to "1".
C20_Witness ==
    /\ Returned
    /\ n = 2
    /\ ret = ReturnObject(state("success"))
    /\ ToggleCall(command, values)
    /\ prev.success /\ ToggleCall(prev.command, prev.values)
    /\ EnableIn(prev.dump) = <<"1">>
    /\ EnableIn(recv[3].data.s) = <<"0">>
    /\ device[K_enable] = <<"1">>

====
